---- MODULE Spec2Model ----
(***************************************************************************)
(* Backup manager of bazarr (bazarr/utilities/backup.py): the files it     *)
(* reads and writes, and one action per function of the module.  A file is *)
(* modelled by its content (a small integer), Absent when it does not      *)
(* exist.  Every file-system call of the source that sits in a try block   *)
(* may fail: an action takes the set F of the calls that fail in it.       *)
(* Times are seconds since the epoch.                                      *)
(***************************************************************************)
EXTENDS Integers, Sequences, FiniteSets, TLC

\* ---------------------------------------------------------------- bounds
MaxContent == 2     \* file contents are 1..MaxContent
MaxNow == 2         \* the clock runs over 0..MaxNow
MaxFaults == 1      \* file-system calls that fail in one run
MaxRetention == 1   \* retention values are 0..MaxRetention days
MaxSteps == 5       \* steps of one run

\* ------------------------------------------------------ program constants
SecondsPerDay == 86400      \* timedelta(days=1)

Absent == 0
Partial == -1       \* a file that exists but was not written completely
Content == 1..MaxContent
Names == 0..MaxNow  \* the timestamp part of an archive's filename
TzOffsets == {-3600, 0, 3600}  \* local time minus UTC

VARIABLES
  liveCfg,    \* <config_dir>/config/config.ini
  liveDb,     \* <config_dir>/db/bazarr.db
  shm, wal,   \* whether bazarr.db-shm / bazarr.db-wal exist
  stagedCfg,  \* <config_dir>/restore/config.ini
  stagedDb,   \* <config_dir>/restore/bazarr.db
  stagedZip,  \* whether a copied archive lies in <config_dir>/restore
  sentinel,   \* whether <config_dir>/bazarr.restart exists
  tempDb,     \* <backup dir>/bazarr_temp.db
  backups,    \* <backup dir>: timestamp of the filename -> archive file
  now,        \* the clock (UTC seconds)
  proc,       \* "starting": restore_from_backup is about to run; "running"
  bk,         \* position of a backup_to_zip call that runs step by step
  steps,      \* how many steps were taken
  faults,     \* how many file-system calls failed
  last        \* what the last call did (history, read by the properties)

vars == <<liveCfg, liveDb, shm, wal, stagedCfg, stagedDb, stagedZip, sentinel,
          tempDb, backups, now, proc, bk, steps, faults, last>>

liveVars == <<liveCfg, liveDb, shm, wal>>
stagedVars == <<stagedCfg, stagedDb, stagedZip>>

\* ------------------------------------------------------------ file helpers
NoFile == [exists |-> FALSE, db |-> Absent, cfg |-> Absent, closed |-> FALSE,
           mtime |-> 0, srcDb |-> Absent, srcCfg |-> Absent]

\* The sets of failing calls an action may draw.
Faults(S) == {F \in SUBSET S : faults + Cardinality(F) <= MaxFaults}

\* shutil.copy(src, dst): the content of dst afterwards.
CopyFileKeep(src, dst, ok) == dst
CopyFile(src, dst, ok) == IF ok /\ src # Absent THEN src ELSE dst

\* Whether shutil.copy(src, dst) returned without OSError.
Copied(src, ok) == ok /\ src # Absent

\* os.remove(path): the content of path afterwards.
RemoveFile(f, ok) == IF ok THEN Absent ELSE f

\* Whether os.remove(path) returned without OSError.
Removed(f, ok) == ok /\ f # Absent

IdleBk == [pc |-> "idle"]

\* ------------------------------------------------------ restore_from_backup
\* Line 94: both staged files are there.
BothStagedOr(c, d) == c # Absent \/ d # Absent
BothStaged(c, d) == c # Absent /\ d # Absent

\* Line 126: one of them is.
AnyStagedCfgOnly(c, d) == c # Absent
AnyStaged(c, d) == c # Absent \/ d # Absent

RestoreFaults == {"copy_cfg", "rm_cfg", "copy_db", "rm_db", "rm_shm", "rm_wal",
                  "open_restart", "rm_cfg_final", "rm_db_final"}

\* Lines 117-125: the restart file is written and the process exits whenever
\* the file could be opened.
RestartWritten(both, opened) == both /\ opened

\* Lines 101-113: the side files are looked at in the else branch of the try
\* that copies and removes the staged database.
SideFilesTried(dbCopied, dbRemoved) == dbCopied /\ dbRemoved

\* Lines 95-105: the database is copied in a try of its own, entered
\* whatever the try of the config did.
DbCopyTriedAfterCfg(both, cfgDone) == both /\ cfgDone
DbCopyTried(both, cfgDone) == both

\* Lines 88-140 when the calls named in F fail.
RestoreCall(F) ==
  /\ proc = "starting"
  /\ LET both == BothStaged(stagedCfg, stagedDb)
           partial == ~both /\ AnyStaged(stagedCfg, stagedDb)
           \* lines 95-99
           cfgCopied == both /\ Copied(stagedCfg, "copy_cfg" \notin F)
           cfg1 == IF cfgCopied THEN RemoveFile(stagedCfg, "rm_cfg" \notin F)
                   ELSE stagedCfg
           \* lines 101-105
           dbTried == DbCopyTried(both, cfgCopied /\ cfg1 = Absent)
           dbCopied == dbTried /\ Copied(stagedDb, "copy_db" \notin F)
           dbRemoved == dbCopied /\ Removed(stagedDb, "rm_db" \notin F)
           db1 == IF dbCopied THEN RemoveFile(stagedDb, "rm_db" \notin F)
                  ELSE stagedDb
           \* lines 106-113
           side == SideFilesTried(dbCopied, dbRemoved)
           shmRaised == side /\ shm /\ "rm_shm" \in F
           shm1 == IF side /\ shm /\ ~shmRaised THEN FALSE ELSE shm
           wal1 == IF side /\ ~shmRaised /\ wal /\ "rm_wal" \notin F
                   THEN FALSE ELSE wal
           \* lines 117-125
           exited == RestartWritten(both, "open_restart" \notin F)
           \* lines 132-140
           cleanup == (both /\ ~exited) \/ partial
           cfg2 == IF cleanup THEN RemoveFile(cfg1, "rm_cfg_final" \notin F)
                   ELSE cfg1
           db2 == IF cleanup THEN RemoveFile(db1, "rm_db_final" \notin F)
                  ELSE db1
       IN /\ liveCfg' = IF both
                        THEN CopyFile(stagedCfg, liveCfg, "copy_cfg" \notin F)
                        ELSE liveCfg
          /\ liveDb' = IF dbTried
                       THEN CopyFile(stagedDb, liveDb, "copy_db" \notin F)
                       ELSE liveDb
          /\ shm' = shm1
          /\ wal' = wal1
          /\ stagedCfg' = cfg2
          /\ stagedDb' = db2
          /\ sentinel' = (sentinel \/ exited)
          /\ proc' = IF exited THEN "starting" ELSE "running"
          /\ last' = [op |-> "restore",
                      hadCfg |-> stagedCfg # Absent, hadDb |-> stagedDb # Absent,
                      srcCfg |-> stagedCfg, srcDb |-> stagedDb,
                      oldCfg |-> liveCfg, oldDb |-> liveDb,
                      hadShm |-> shm, hadWal |-> wal,
                      from |-> IF last.op = "prepare" /\ last.extracted
                               THEN <<last.srcCfg, last.srcDb>>
                               ELSE <<Absent, Absent>>,
                      cfgCopied |-> cfgCopied, dbCopied |-> dbCopied,
                      cfgRmFailed |-> \/ (cfgCopied /\ "rm_cfg" \in F)
                                      \/ (cleanup /\ cfg1 # Absent
                                            /\ "rm_cfg_final" \in F),
                      dbRmFailed |-> \/ (dbCopied /\ "rm_db" \in F)
                                     \/ (cleanup /\ db1 # Absent
                                           /\ "rm_db_final" \in F),
                      sideRmFailed |-> \/ shmRaised
                                       \/ (side /\ wal /\ "rm_wal" \in F),
                      sideTried |-> side, dbTried |-> dbTried,
                      result |-> IF exited THEN "exited" ELSE "returned"]
  /\ UNCHANGED <<stagedZip, tempDb, backups, now, bk>>

RestoreFromBackup ==
  /\ proc = "starting"
  /\ \E F \in Faults(RestoreFaults) :
       RestoreCall(F) /\ faults' = faults + Cardinality(F)

\* ------------------------------------------------------------ backup_to_zip
\* Lines 49-51: the filename is made of the version and of the clock reading.
BackupName(t) == t

\* The names of the directory entries, as glob sees them.
BackupFilename(n) == <<"bazarr_backup_v", n, ".zip">>
TempFilename == <<"bazarr_temp", 0, ".db">>

\* Line 75: ZipFile(path, 'w') creates (or truncates) the file at its final
\* path; nothing is written to it yet.
ZipOpen(t, d, c) == [exists |-> TRUE, db |-> Absent, cfg |-> Absent,
                     closed |-> FALSE, mtime |-> t, srcDb |-> d, srcCfg |-> c]

\* Lines 77, 80: backupZip.write(file, member).
ZipWrite(a, member, content, t) ==
  [a EXCEPT ![member] = content, !.mtime = t]

\* Line 75, leaving the with block (also on an exception): the central
\* directory is written, the file is a readable zip from now on.
ZipClose(a, t) == [a EXCEPT !.closed = TRUE, !.mtime = t]

\* Lines 57-70: the content of bazarr_temp.db after the snapshot step.
\* "connect" fails before the temporary file is touched, "backup" while it
\* is being written.
SnapshotFile(temp, db, F) ==
  IF "connect" \in F THEN temp
  ELSE IF "backup" \in F THEN Partial
  ELSE db

\* Lines 60, 69: database_backup_file is a path, or None after an exception.
SnapshotTaken(F) == "connect" \notin F /\ "backup" \notin F

\* Lines 75-80: the archive the with block leaves behind.
ZipArchive(hasDb, temp, cfg, d, F, t) ==
  LET a0 == ZipOpen(t, d, cfg)
      a1 == IF hasDb /\ "zip_db" \notin F
            THEN ZipWrite(a0, "db", temp, t) ELSE a0
      a2 == IF ~(hasDb /\ "zip_db" \in F) /\ "zip_cfg" \notin F
            THEN ZipWrite(a1, "cfg", cfg, t) ELSE a1
  IN ZipClose(a2, t)

\* Lines 75-80: whether the with block raised.
ZipRaised(hasDb, F) ==
  "zip_open" \in F \/ (hasDb /\ "zip_db" \in F) \/ "zip_cfg" \in F

\* Lines 82-85: os.remove(None) raises TypeError, which is no OSError.
RemoveTempRaised(hasDb) == ~hasDb

\* What a call of backup_to_zip did: whether the snapshot was taken, whether
\* the archive file was created, and how the call ended.
BkResult(zipRaised, rmRaised, rmFailed, n, hasDb, created) ==
  [op |-> "backup", name |-> n, snapshot |-> hasDb, zipRaised |-> zipRaised,
   created |-> created, rmFailed |-> rmFailed,
   result |-> IF zipRaised \/ rmRaised THEN "raised" ELSE "returned"]

BackupFaults == {"connect", "backup", "zip_open", "zip_db", "zip_cfg", "rm_temp"}

BackupToZip ==
  /\ proc = "running"
  /\ bk = IdleBk
  /\ \E F \in Faults(BackupFaults) :
       LET n == BackupName(now)
           hasDb == SnapshotTaken(F)
           temp1 == SnapshotFile(tempDb, liveDb, F)
           zipRaised == ZipRaised(hasDb, F)
           rmRaised == ~zipRaised /\ RemoveTempRaised(hasDb)
       IN /\ backups' = IF "zip_open" \in F THEN backups
                        ELSE [backups EXCEPT
                                ![n] = ZipArchive(hasDb, temp1, liveCfg, liveDb,
                                                  F, now)]
          /\ tempDb' = IF zipRaised \/ rmRaised THEN temp1
                       ELSE RemoveFile(temp1, "rm_temp" \notin F)
          /\ faults' = faults + Cardinality(F)
          /\ last' = BkResult(zipRaised, rmRaised,
                              ~zipRaised /\ ~rmRaised /\ "rm_temp" \in F,
                              n, hasDb, "zip_open" \notin F)
  /\ UNCHANGED <<liveVars, stagedVars, sentinel, now, proc, bk>>

\* ------------------------------------------- backup_to_zip, statement by statement
\* The same call as BackupToZip, one file-system effect at a time, for what
\* another thread (the API serving a listing or a restore request while the
\* scheduler runs a backup) can see in between.

\* Lines 49-70: derive the name, take the snapshot.
BkSnapshot ==
  /\ proc = "running"
  /\ bk = IdleBk
  /\ \E F \in Faults({"connect", "backup"}) :
       /\ tempDb' = SnapshotFile(tempDb, liveDb, F)
       /\ bk' = [pc |-> "open", name |-> BackupName(now),
                 hasDb |-> SnapshotTaken(F), srcDb |-> liveDb]
       /\ faults' = faults + Cardinality(F)
  /\ UNCHANGED <<liveVars, stagedVars, sentinel, backups, now, proc, last>>

\* Line 75: the archive is created under its final name.
BkOpen ==
  /\ bk.pc = "open"
  /\ \E F \in Faults({"zip_open"}) :
       /\ backups' = IF "zip_open" \in F THEN backups
                     ELSE [backups EXCEPT
                             ![bk.name] = ZipOpen(now, bk.srcDb, liveCfg)]
       /\ bk' = IF "zip_open" \in F THEN IdleBk
                ELSE [bk EXCEPT !.pc = IF bk.hasDb THEN "write_db"
                                       ELSE "write_cfg"]
       /\ last' = IF "zip_open" \in F
                  THEN BkResult(TRUE, FALSE, FALSE, bk.name, bk.hasDb, FALSE) ELSE last
       /\ faults' = faults + Cardinality(F)
  /\ UNCHANGED <<liveVars, stagedVars, sentinel, tempDb, now, proc>>

\* Lines 76-77; an exception leaves the with block, which closes the file.
BkWriteDb ==
  /\ bk.pc = "write_db"
  /\ \E F \in Faults({"zip_db"}) :
       /\ backups' = [backups EXCEPT
                        ![bk.name] = IF "zip_db" \in F THEN ZipClose(@, now)
                                     ELSE ZipWrite(@, "db", tempDb, now)]
       /\ bk' = IF "zip_db" \in F THEN IdleBk ELSE [bk EXCEPT !.pc = "write_cfg"]
       /\ last' = IF "zip_db" \in F
                  THEN BkResult(TRUE, FALSE, FALSE, bk.name, bk.hasDb, TRUE) ELSE last
       /\ faults' = faults + Cardinality(F)
  /\ UNCHANGED <<liveVars, stagedVars, sentinel, tempDb, now, proc>>

\* Line 80.
BkWriteCfg ==
  /\ bk.pc = "write_cfg"
  /\ \E F \in Faults({"zip_cfg"}) :
       /\ backups' = [backups EXCEPT
                        ![bk.name] = IF "zip_cfg" \in F THEN ZipClose(@, now)
                                     ELSE ZipWrite(@, "cfg", liveCfg, now)]
       /\ bk' = IF "zip_cfg" \in F THEN IdleBk ELSE [bk EXCEPT !.pc = "close"]
       /\ last' = IF "zip_cfg" \in F
                  THEN BkResult(TRUE, FALSE, FALSE, bk.name, bk.hasDb, TRUE) ELSE last
       /\ faults' = faults + Cardinality(F)
  /\ UNCHANGED <<liveVars, stagedVars, sentinel, tempDb, now, proc>>

\* Line 75, the end of the with block.
BkClose ==
  /\ bk.pc = "close"
  /\ backups' = [backups EXCEPT ![bk.name] = ZipClose(@, now)]
  /\ bk' = [bk EXCEPT !.pc = "rm_temp"]
  /\ UNCHANGED <<liveVars, stagedVars, sentinel, tempDb, now, proc, faults,
                 last>>

\* Lines 82-85.
BkRemoveTemp ==
  /\ bk.pc = "rm_temp"
  /\ \E F \in Faults({"rm_temp"}) :
       /\ tempDb' = IF RemoveTempRaised(bk.hasDb) THEN tempDb
                    ELSE RemoveFile(tempDb, "rm_temp" \notin F)
       /\ last' = BkResult(FALSE, RemoveTempRaised(bk.hasDb),
                           ~RemoveTempRaised(bk.hasDb) /\ "rm_temp" \in F,
                           bk.name, bk.hasDb, TRUE)
       /\ faults' = faults + Cardinality(F)
  /\ bk' = IdleBk
  /\ UNCHANGED <<liveVars, stagedVars, sentinel, backups, now, proc>>

\* ---------------------------------------------------------- prepare_restore
PrepareFaults == {"copy_zip", "extract", "rm_zip"}

\* Lines 152-158: success is set after the try that extracts, so also when
\* BadZipFile was caught; any other exception leaves the else branch.
Success(copied, extractRaised) == copied /\ ~extractRaised

\* Line 154: extractall writes the members the archive holds.
ExtractKeep(member, staged) == staged
Extract(member, staged) == IF member # Absent THEN member ELSE staged

\* Lines 159-163: the removal stands in the finally clause, so it is tried
\* however the try ended (raised tells whether an exception is on its way).
RemoveStagedZipUnlessRaised(zips, n, raised, ok) ==
  IF ok /\ ~raised THEN zips \ {n} ELSE zips
RemoveStagedZip(zips, n, raised, ok) == IF ok THEN zips \ {n} ELSE zips

PrepareRestore(n) ==
  /\ proc = "running"
  /\ \E F \in Faults(PrepareFaults) :
       LET a == backups[n]
           copied == a.exists /\ "copy_zip" \notin F
           zip1 == IF copied THEN stagedZip \cup {n} ELSE stagedZip
           bad == copied /\ ~a.closed
           extractRaised == copied /\ ~bad /\ "extract" \in F
           extracted == copied /\ ~bad /\ ~extractRaised
           success == Success(copied, extractRaised)
       IN /\ stagedDb' = IF extracted THEN Extract(a.db, stagedDb) ELSE stagedDb
          /\ stagedCfg' = IF extracted THEN Extract(a.cfg, stagedCfg)
                          ELSE stagedCfg
          /\ stagedZip' = RemoveStagedZip(zip1, n, extractRaised,
                                          "rm_zip" \notin F)
          /\ proc' = IF success THEN "starting" ELSE "running"
          /\ faults' = faults + Cardinality(F)
          /\ last' = [op |-> "prepare", name |-> n, copied |-> copied,
                      bad |-> bad, extracted |-> extracted,
                      rmFailed |-> n \in zip1 /\ "rm_zip" \in F,
                      srcDb |-> a.srcDb, srcCfg |-> a.srcCfg,
                      hasDb |-> a.db # Absent, hasCfg |-> a.cfg # Absent,
                      result |-> IF success THEN "restart"
                                 ELSE IF extractRaised THEN "raised"
                                 ELSE "returned"]
  /\ UNCHANGED <<liveVars, sentinel, tempDb, backups, now, bk>>

\* --------------------------------------------------------- get_backup_files
\* The entries of the backup directory.
DirEntries ==
  {BackupFilename(n) : n \in {m \in Names : backups[m].exists}}
    \cup (IF tempDb # Absent THEN {TempFilename} ELSE {})

\* Line 34: the pattern bazarr_backup_v*.zip.
GlobMatch(f) == f[1] = "bazarr_backup_v" /\ f[3] = ".zip"

\* Line 36: os.path.getmtime, read for the files the pattern matched.
GetMTime(f) == backups[f[2]].mtime

\* Line 36: the order list.sort(key=os.path.getmtime) allows.
SortedDescending(s) ==
  \A i, j \in 1..Len(s) : i < j => GetMTime(s[i]) >= GetMTime(s[j])
SortedByMTime(s) ==
  \A i, j \in 1..Len(s) : i < j => GetMTime(s[i]) <= GetMTime(s[j])

\* The sequences that hold each element of S once.
Orderings(S) ==
  {s \in [1..Cardinality(S) -> S] : \A x \in S : \E i \in DOMAIN s : s[i] = x}

\* Lines 33-38: glob, then sort; files of equal mtime come in glob's order,
\* which is arbitrary.
GetBackupFiles ==
  /\ proc = "running"
  /\ \E s \in Orderings({f \in DirEntries : GlobMatch(f)}) :
       /\ SortedByMTime(s)
       /\ last' = [op |-> "list", files |-> s,
                   created |-> IF last.op = "backup" /\ last.result = "returned"
                               THEN {BackupFilename(last.name)} ELSE {}]
  /\ UNCHANGED faults
  /\ UNCHANGED <<liveVars, stagedVars, sentinel, tempDb, backups, now,
                 proc, bk>>

\* ---------------------------------------------------------- backup_rotation
\* settings.backup.retention: an integer (or a numeric string), a string
\* that is no number, or nothing.
RetentionValues ==
  {[kind |-> "int", days |-> d] : d \in 0..MaxRetention}
    \cup {[kind |-> "str", days |-> 0], [kind |-> "none", days |-> 0]}

\* Line 183: datetime.fromtimestamp gives local time, datetime.utcnow UTC.
\* tz is the offset of the local time zone, local time minus UTC.
FromTimestamp(t, tz) == t + tz
UtcNow == now

Expired(m, days, tz) == FromTimestamp(m, tz) + days * SecondsPerDay < UtcNow

\* Lines 173-177: int() raises ValueError for a string that is no number
\* (caught) and TypeError for None (not caught).
RetentionResult(r) ==
  CASE r.kind = "int" -> "returned"
    [] r.kind = "str" -> "returned"
    [] OTHER -> "raised"

BackupRotation ==
  /\ proc = "running"
  /\ \E r \in RetentionValues, tz \in TzOffsets, F \in Faults(Names) :
       LET tried == IF r.kind = "int"
                    THEN {n \in Names : backups[n].exists
                                          /\ Expired(backups[n].mtime, r.days, tz)}
                    ELSE {}
       IN /\ backups' = [n \in Names |->
                           IF n \in tried \ F THEN NoFile ELSE backups[n]]
          /\ faults' = faults + Cardinality(F)
          /\ last' = [op |-> "rotation", retention |-> r, tz |-> tz,
                      tried |-> tried,
                      failed |-> tried \cap F,
                      result |-> RetentionResult(r)]
  /\ UNCHANGED <<liveVars, stagedVars, sentinel, tempDb, now, proc, bk>>

\* ------------------------------------------------------- delete_backup_file
DeleteBackupFile(n) ==
  /\ proc = "running"
  /\ \E F \in Faults({"rm"}) :
       /\ backups' = [backups EXCEPT ![n] = IF "rm" \in F THEN @ ELSE NoFile]
       /\ faults' = faults + Cardinality(F)
       /\ last' = [op |-> "delete", name |-> n,
                   result |-> backups[n].exists /\ "rm" \notin F]
  /\ UNCHANGED <<liveVars, stagedVars, sentinel, tempDb, now, proc, bk>>

\* -------------------------------------------------------------- environment
\* datetime.now() (line 49) and datetime.utcnow() (line 183) read a clock
\* that advances.
Tick ==
  /\ now < MaxNow
  /\ now' = now + 1
  /\ UNCHANGED <<liveVars, stagedVars, sentinel, tempDb, backups, proc,
                 bk, faults, last>>

\* The running application changes its configuration and its database
\* (the files of lines 54 and 72).
EditLive ==
  /\ proc = "running"
  /\ \E c \in Content, d \in Content :
       /\ <<c, d>> # <<liveCfg, liveDb>>
       /\ liveCfg' = c
       /\ liveDb' = d
  /\ shm' = TRUE
  /\ wal' = TRUE
  /\ UNCHANGED <<stagedVars, sentinel, tempDb, backups, now, proc, bk,
                 faults, last>>

\* ---------------------------------------------------------------- the system
\* A file that is no readable zip lies in the backup directory (an archive
\* cut short or damaged on disk): what line 155 is written for.
DamagedArchive == [NoFile EXCEPT !.exists = TRUE]

\* The files and the process before the first call.
InitFiles ==
  /\ liveCfg = 1
  /\ liveDb = 1
  /\ shm = FALSE
  /\ wal = FALSE
  /\ stagedCfg = Absent
  /\ stagedDb = Absent
  /\ stagedZip = {}
  /\ sentinel = FALSE
  /\ tempDb = Absent
  /\ backups \in {[n \in Names |-> IF n = 0 THEN a ELSE NoFile] :
                    a \in {NoFile, DamagedArchive}}
  /\ now = 0
  /\ proc = "starting"
  /\ bk = IdleBk
  /\ steps = 0
  /\ faults = 0

Init ==
  /\ InitFiles
  /\ last = [op |-> "none"]

\* A run is cut after MaxSteps steps.
Counted == steps < MaxSteps /\ steps' = steps + 1

Next ==
  \/ Counted /\ RestoreFromBackup
  \/ Counted /\ BackupToZip
  \/ Counted /\ \E n \in Names : PrepareRestore(n)
  \/ Counted /\ GetBackupFiles
  \/ Counted /\ BackupRotation
  \/ Counted /\ \E n \in Names : DeleteBackupFile(n)
  \/ Counted /\ Tick
  \/ Counted /\ EditLive

Spec == Init /\ [][Next]_vars

\* A backup that runs while the API serves listings and restore requests.
InitConc ==
  /\ Init
  /\ \A n \in Names : ~backups[n].exists

NextConc ==
  \/ Counted /\ RestoreFromBackup
  \/ Counted /\ BkSnapshot
  \/ Counted /\ GetBackupFiles
  \/ Counted /\ \E n \in Names : PrepareRestore(n)
  \/ Counted /\ Tick
  \/ UNCHANGED steps /\ BkOpen
  \/ UNCHANGED steps /\ BkWriteDb
  \/ UNCHANGED steps /\ BkWriteCfg
  \/ UNCHANGED steps /\ BkClose
  \/ UNCHANGED steps /\ BkRemoveTemp

SpecConc == InitConc /\ [][NextConc]_vars

\* ------------------------------------------- BrowseRadarrFS.get (files_radarr.py)
MaxDirs == 3

SeqsUpTo(S, n) == UNION {[1..k -> S] : k \in 0..n}

\* What browse_radarr_filesystem hands back: nothing, an exception, or a
\* result whose 'directories' is a list of items with a name and a path.
DirItems == [name : {"a", "b"}, path : {"/a", "/b"}]

ProviderResults ==
  {[kind |-> k, directories |-> <<>>] : k \in {"none", "raise"}}
    \cup {[kind |-> "result", directories |-> s] : s \in SeqsUpTo(DirItems, MaxDirs)}

\* Lines 33-38: the call and the test for None stand inside one try whose
\* handler catches Exception, so the ValueError raised for None is caught
\* like an exception of the provider.
CaughtNoneOnly(kind) == kind = "none"
Caught(kind) == kind \in {"none", "raise"}

\* Line 40: one entry of the response.
Entry(item) == [name |-> item.name, children |-> TRUE, path |-> item.path]

\* Lines 28-41, for one outcome of the provider.
get(p) ==
  IF Caught(p.kind) THEN [raised |-> FALSE, data |-> <<>>]
  ELSE IF p.kind = "raise" THEN [raised |-> TRUE, data |-> <<>>]
  ELSE [raised |-> FALSE,
        data |-> [i \in 1..Len(p.directories) |-> Entry(p.directories[i])]]

BrowseRadarrFS ==
  /\ last.op = "request"
  /\ last' = [op |-> "browse", provider |-> last.provider,
              response |-> get(last.provider)]
  /\ UNCHANGED <<liveVars, stagedVars, sentinel, tempDb, backups, now, proc,
                 bk, steps, faults>>

InitBrowse ==
  /\ InitFiles
  /\ \E p \in ProviderResults : last = [op |-> "request", provider |-> p]

NextBrowse == BrowseRadarrFS

SpecBrowse == InitBrowse /\ [][NextBrowse]_vars

\* --------------------------------------------------------------- sizeof_fmt
\* A size is written in base 1000, most significant digit first; num is what
\* stands before the point (int) and after it (frac). Division of these
\* digits is exact; the float division of line 206 gives the same unit and
\* the same tenth for every size of up to ExactDigits digits and for the
\* powers of 1000.
MaxExp == 9
ExactDigits == 5

Units == <<"", "K", "M", "G", "T", "P", "E", "Z">>
Suffix == "B"

Num(digits) == [int |-> digits, frac |-> <<>>]

\* Line 204: abs(num) < 1000.0.
LessThan1000(num) == Len(num.int) <= 1

\* Line 206: num /= 1000.0.
Div1000Keep(num) == num
Div1000(num) ==
  IF Len(num.int) <= 1
  THEN [int |-> <<0>>, frac |-> num.int \o num.frac]
  ELSE [int |-> SubSeq(num.int, 1, Len(num.int) - 1),
        frac |-> <<num.int[Len(num.int)]>> \o num.frac]

RECURSIVE IntVal(_)
IntVal(ds) ==
  IF ds = <<>> THEN 0
  ELSE IntVal(SubSeq(ds, 1, Len(ds) - 1)) * 1000 + ds[Len(ds)]

AllZero(ds) == \A i \in DOMAIN ds : ds[i] = 0

\* Lines 205 and 207: the format .1f writes the tenth nearest to num. The
\* result is counted in tenths. For a num half way between two tenths the
\* binary expansion of the float decides, so both tenths are possible.
Format1(num) ==
  LET f1 == IF num.frac = <<>> THEN 0 ELSE num.frac[1]
      rest == IF num.frac = <<>> THEN <<>> ELSE Tail(num.frac)
      down == IntVal(num.int) * 10 + (f1 \div 100)
      r == f1 % 100
  IN IF r < 50 THEN {down}
     ELSE IF r > 50 \/ ~AllZero(rest) THEN {down + 1}
     ELSE {down, down + 1}

\* Lines 203-207: the loop over the units; i is the position in Units.
RECURSIVE SizeofLoop(_, _)
SizeofLoop(num, i) ==
  IF i > Len(Units) THEN [num |-> num, unit |-> "Y" \o Suffix]
  ELSE IF LessThan1000(num) THEN [num |-> num, unit |-> Units[i] \o Suffix]
  ELSE SizeofLoop(Div1000(num), i + 1)

\* The strings sizeof_fmt can return, as mantissa (in tenths) and unit.
sizeof_fmt(digits) ==
  LET r == SizeofLoop(Num(digits), 1)
  IN {[mant |-> m, unit |-> r.unit] : m \in Format1(r.num)}

\* The sizes drawn: up to ExactDigits digits, and the powers of 1000 above.
Sizes ==
  {<<d>> : d \in {0, 1, 999}}
    \cup {<<a, b>> \o [i \in 1..k |-> f] :
            a \in {1, 999}, b \in {0, 500, 949, 950, 999}, f \in {0, 999},
            k \in 0..(ExactDigits - 2)}
    \cup {<<1>> \o [i \in 1..k |-> 0] : k \in ExactDigits..MaxExp}

SizeofFmt ==
  /\ last.op = "size"
  /\ \E out \in sizeof_fmt(last.num) :
       last' = [op |-> "sizeof_fmt", num |-> last.num, out |-> out]
  /\ UNCHANGED <<liveVars, stagedVars, sentinel, tempDb, backups, now, proc,
                 bk, steps, faults>>

InitFmt ==
  /\ InitFiles
  /\ \E n \in Sizes : last = [op |-> "size", num |-> n]

NextFmt == SizeofFmt

SpecFmt == InitFmt /\ [][NextFmt]_vars

\* ------------------------------------------------ restore across restarts
\* Each start of the process runs restore_from_backup. A call that fails at
\* one start can fail at the next one too (a live file that cannot be written
\* stays so), hence no count of failures here.
Startup ==
  /\ ~sentinel
  /\ \E F \in SUBSET RestoreFaults :
       RestoreCall(F) /\ UNCHANGED <<steps, faults>>

\* The launcher that supervises the process finds the restart file after the
\* exit of line 125, removes it and starts the process again.
LauncherRestart ==
  /\ sentinel
  /\ proc = "starting"
  /\ sentinel' = FALSE
  /\ UNCHANGED <<liveVars, stagedVars, tempDb, backups, now, proc, bk, steps,
                 faults, last>>

\* prepare_restore has staged both files of some archive and restarted.
InitRestart ==
  /\ liveCfg \in Content
  /\ liveDb \in Content
  /\ shm \in BOOLEAN
  /\ wal \in BOOLEAN
  /\ stagedCfg \in Content
  /\ stagedDb \in Content
  /\ stagedZip = {}
  /\ sentinel = FALSE
  /\ tempDb = Absent
  /\ backups = [n \in Names |-> NoFile]
  /\ now = 0
  /\ proc = "starting"
  /\ bk = IdleBk
  /\ steps = 0
  /\ faults = 0
  /\ last = [op |-> "none"]

NextRestart ==
  \/ Startup
  \/ LauncherRestart

SpecRestart ==
  InitRestart /\ [][NextRestart]_vars
    /\ WF_vars(Startup) /\ WF_vars(LauncherRestart)

\* ======================================================================
\* Properties
\* ======================================================================
ExactlyOneStaged == (stagedCfg # Absent) # (stagedDb # Absent)

\* C1: restore_from_backup writes the live config or the live database
\* only if both staged files existed when it was invoked; with none or one
\* of them staged neither live file is written.
C1_RestoreNeedsBoth ==
  last.op = "restore" /\ (last.cfgCopied \/ last.dbCopied)
    => last.hadCfg /\ last.hadDb

\* A restore that found both staged files and wrote both live files.
C1_Witness ==
  /\ last.op = "restore"
  /\ last.hadCfg /\ last.hadDb
  /\ last.cfgCopied /\ last.dbCopied
  /\ liveCfg = last.srcCfg /\ liveDb = last.srcDb

\* C2 as stated: with exactly one staged file, restore_from_backup changes
\* no file at all: the staged file stays, the live files, the restart file
\* and the backup directory are unchanged.
C2_NoMutationWhenPartial ==
  [][RestoreFromBackup /\ ExactlyOneStaged
       => /\ stagedCfg' = stagedCfg /\ stagedDb' = stagedDb
          /\ UNCHANGED <<liveVars, sentinel, backups>>]_vars

\* C2 amended: with exactly one staged file, restore_from_backup leaves the
\* live files, their side files, the restart file and the backup directory
\* unchanged and returns, and its final clean-up removes the staged file
\* that is there: the file is gone afterwards unless its removal failed.
C2_PartialIsCleanedUp ==
  [][RestoreFromBackup /\ ExactlyOneStaged
       => /\ UNCHANGED <<liveVars, sentinel, backups, tempDb>>
          /\ proc' = "running"
          /\ stagedCfg' = Absent \/ last'.cfgRmFailed
          /\ stagedDb' = Absent \/ last'.dbRmFailed]_vars

\* A restore that found the staged config alone and removed it.
C2_Witness ==
  /\ last.op = "restore"
  /\ last.hadCfg /\ ~last.hadDb
  /\ ~last.cfgRmFailed
  /\ stagedCfg = Absent
  /\ last.result = "returned"

C4_NoRestartOnBadZip ==
  /\ last.op = "prepare" /\ last.extracted => last.result = "restart"
  /\ last.op = "prepare" /\ last.bad => last.result # "restart"

\* C5: backup_to_zip returns normally when the snapshot of the database
\* failed and the config-only archive was written.
C5_ReturnsWithoutSnapshot ==
  last.op = "backup" /\ ~last.snapshot /\ ~last.zipRaised
    => last.result = "returned"

\* C6: an archive backup_to_zip leaves in the backup directory holds
\* config.ini, and holds bazarr.db exactly if the snapshot step succeeded,
\* however the writing of the zip ended.
C6_ArchiveMembers ==
  last.op = "backup" /\ last.created
    => /\ backups[last.name].exists
       /\ backups[last.name].cfg # Absent
       /\ backups[last.name].db # Absent <=> last.snapshot

\* C7: under any interleaving with a running backup_to_zip, a listing
\* returns, and prepare_restore copies, only archives that are complete
\* (readable zip files).
C7_NoPartialArchiveObserved ==
  [][/\ GetBackupFiles
          => \A i \in DOMAIN last'.files : backups[last'.files[i][2]].closed
     /\ (\E n \in Names : PrepareRestore(n)) /\ last'.copied
          => ~last'.bad]_vars

\* C8: after backup_rotation with retention r >= 0, when no deletion
\* failed, every archive strictly older than now - r days is deleted and
\* every archive newer than now - r days still exists, whatever the offset
\* of the local time zone.
C8_RotationWindow ==
  [][BackupRotation /\ last'.retention.kind = "int" /\ last'.failed = {}
       => \A n \in Names :
            backups[n].exists =>
              LET limit == now - last'.retention.days * SecondsPerDay
              IN /\ backups[n].mtime < limit => ~backups'[n].exists
                 /\ backups[n].mtime > limit => backups'[n].exists]_vars

\* A call of restore_from_backup at the startup that follows a
\* prepare_restore of an archive backup_to_zip made.
RestoreOfArchive ==
  /\ RestoreFromBackup
  /\ last.op = "prepare" /\ last.result = "restart"
  /\ last.srcCfg # Absent /\ last.srcDb # Absent

C10_ListHoldsNewArchive ==
  last.op = "list"
    => /\ \A f \in last.created : \E i \in DOMAIN last.files : last.files[i] = f
       /\ \A i, j \in DOMAIN last.files :
            i < j => backups[last.files[i][2]].mtime
                       <= backups[last.files[j][2]].mtime

\* A listing after a backup, of two archives of different modification
\* times, the new one among them.
C10_Witness ==
  /\ last.op = "list"
  /\ last.created # {}
  /\ Len(last.files) >= 2
  /\ backups[last.files[1][2]].mtime < backups[last.files[2][2]].mtime
  /\ \E i \in DOMAIN last.files : last.files[i] \in last.created

\* C11: BrowseRadarrFS.get raises nothing; it answers the empty list when the
\* provider gave nothing or raised, and otherwise one entry per directory of
\* the provider's result, in the provider's order, with the provider's name
\* and path and children = TRUE.
C11_ListDirectory ==
  last.op = "browse" =>
    LET p == last.provider
        r == last.response
    IN /\ ~r.raised
       /\ p.kind \in {"none", "raise"} => r.data = <<>>
       /\ p.kind = "result" =>
            /\ Len(r.data) = Len(p.directories)
            /\ \A i \in 1..Len(p.directories) :
                 /\ r.data[i].name = p.directories[i].name
                 /\ r.data[i].path = p.directories[i].path
                 /\ r.data[i].children = TRUE

C11_Witness ==
  /\ last.op = "browse"
  /\ last.provider.kind = "result"
  /\ Len(last.response.data) = 2
  /\ last.response.data[1].name # last.response.data[2].name
  /\ last.response.data[1].name = last.provider.directories[1].name


\* C12: when the retention setting is no valid integer (a non-numeric string,
\* or no value at all) backup_rotation deletes no archive and returns
\* without raising.
C12_InvalidRetentionReturns ==
  last.op = "rotation" /\ last.retention.kind # "int" =>
    /\ last.result = "returned"
    /\ last.tried = {}


\* The tenths nearest to n / 1000^k, for n of k + 1 digits.
NearestTenths(digits) ==
  LET second == IF Len(digits) > 1 THEN digits[2] ELSE 0
      below == digits[1] * 10 + (second \div 100)
      exact == second % 100 = 50 /\ \A i \in 3..Len(digits) : digits[i] = 0
  IN IF second % 100 < 50 THEN {below}
     ELSE IF exact THEN {below, below + 1}
     ELSE {below + 1}

LadderLetters == <<"B", "K", "M", "G", "T", "P", "E", "Z", "Y">>
LadderWithSuffix == <<"B", "KB", "MB", "GB", "TB", "PB", "EB", "ZB", "YB">>

\* C13: for a size n with 1000^k <= n < 1000^(k+1) sizeof_fmt writes the
\* k-th unit of the ladder B, K, M, G, T, P, E, Z, Y and the mantissa
\* n / 1000^k with one decimal; 999 gives "999.0 B", 1500 gives "1.5 K" and
\* 10^18 a string in E or Z.
C13_Ladder ==
  last.op = "sizeof_fmt" /\ Len(last.num) <= Len(LadderLetters) =>
    /\ last.out.unit = LadderLetters[Len(last.num)]
    /\ last.out.mant \in NearestTenths(last.num)
    /\ last.num = <<999>> => last.out = [mant |-> 9990, unit |-> "B"]
    /\ last.num = <<1, 500>> => last.out = [mant |-> 15, unit |-> "K"]
    /\ last.num = <<1, 0, 0, 0, 0, 0, 0>> => last.out.unit \in {"E", "Z"}

\* C13 as the code has it: the units carry the suffix B, so the ladder is
\* B, KB, MB, GB, TB, PB, EB, ZB, YB; 1500 gives "1.5 KB" and 10^18 "1.0 EB".
C13_LadderWithSuffix ==
  last.op = "sizeof_fmt" /\ Len(last.num) <= Len(LadderWithSuffix) =>
    /\ last.out.unit = LadderWithSuffix[Len(last.num)]
    /\ last.out.mant \in NearestTenths(last.num)
    /\ last.num = <<999>> => last.out = [mant |-> 9990, unit |-> "B"]
    /\ last.num = <<1, 500>> => last.out = [mant |-> 15, unit |-> "KB"]
    /\ last.num = <<1, 0, 0, 0, 0, 0, 0>> =>
         last.out = [mant |-> 10, unit |-> "EB"]

C13_Witness ==
  /\ last.op = "sizeof_fmt"
  /\ last.num = <<999, 949, 999>>
  /\ last.out = [mant |-> 9999, unit |-> "MB"]


\* C14: from a start with both files staged, the starts of the process that
\* follow reach one where restore_from_backup returns (the process runs on)
\* and no staged file is left, unless the removal of a staged file failed.
C14_EndsIdleAndClean ==
  <>(\/ proc = "running" /\ stagedCfg = Absent /\ stagedDb = Absent
     \/ last.op = "restore" /\ (last.cfgRmFailed \/ last.dbRmFailed))


\* C15: restore_from_backup writes the restart file and exits only when both
\* copies succeeded; when a copy failed it does neither.
C15_RestartOnlyOnSuccess ==
  last.op = "restore" /\ last.result = "exited" =>
    last.cfgCopied /\ last.dbCopied


\* C16: after a call of backup_to_zip, however the snapshot and the writing
\* of the zip ended, 'bazarr_temp.db' does not exist any more, unless its
\* deletion itself failed.
C16_TempFileRemoved ==
  last.op = "backup" => tempDb = Absent \/ last.rmFailed


\* C17: after a call of prepare_restore that copied the archive into the
\* staging directory, the copy is not there any more, whether the extraction
\* succeeded, met a bad zip or raised another error, unless the removal of
\* the copy itself failed.
C17_StagedZipRemoved ==
  last.op = "prepare" /\ last.copied =>
    last.name \notin stagedZip \/ last.rmFailed

C17_Witness ==
  /\ last.op = "prepare"
  /\ last.copied
  /\ last.result = "raised"
  /\ ~last.rmFailed
  /\ last.name \notin stagedZip


\* C18: whenever restore_from_backup copied the staged database over the live
\* one, it tries to delete the '-shm' and '-wal' files before the restart,
\* also when the deletion of the staged database failed after the copy.
C18_SideFilesTriedAfterCopy ==
  last.op = "restore" /\ last.dbCopied => last.sideTried


\* C19: with both files staged the config step and the database step do not
\* depend on each other: the database copy is tried whatever happened to the
\* config copy and to the removal of the staged config, a config that was
\* copied stays copied whatever happens to the database, and lines 95-105
\* remove a staged file only after its own copy succeeded.
C19_StepsIndependent ==
  [][RestoreFromBackup /\ BothStaged(stagedCfg, stagedDb) =>
       /\ last'.dbTried
       /\ last'.cfgCopied => liveCfg' = stagedCfg
       /\ last'.dbCopied => liveDb' = stagedDb
       /\ ~last'.dbCopied => liveDb' = liveDb
       /\ last'.result = "exited" /\ stagedCfg' = Absent => last'.cfgCopied
       /\ last'.result = "exited" /\ stagedDb' = Absent => last'.dbCopied]_vars

C19_Witness ==
  /\ last.op = "restore"
  /\ last.hadCfg /\ last.hadDb
  /\ ~last.cfgCopied
  /\ last.dbTried /\ last.dbCopied
  /\ stagedCfg # Absent
  /\ stagedDb = Absent


\* C20: the file name backup_to_zip derives is new each time: a call that
\* writes its archive does not write over the archive of an earlier call,
\* also when both calls fall into the same second of the clock.
C20_NeverOverwrites ==
  [][BackupToZip /\ last'.created =>
       backups[last'.name].srcCfg = Absent]_vars

====
